---- MODULE Spec2Model ----
(***************************************************************************)
(* A model of the fps_fuel client: the Player controller (src/Player.js    *)
(* and its later revision src/unnamed/part_003), the NetworkManager        *)
(* (src/NetworkManager.js) and the menu handlers that start a session      *)
(* (src/main.js).                                                          *)
(*                                                                         *)
(* Lengths and speeds are integers in hundredths of a unit, times are      *)
(* integers in milliseconds.  Health values are plain integers.            *)
(*                                                                         *)
(* Five variables are history variables and model no field of the program: *)
(*   ev        the handler that ran last, with the input it was given; for  *)
(*             onReceiveData also whether it went through respawn and      *)
(*             whether the message is the Move it handled last before      *)
(*   out       the messages that handler passed to conn.send, in order     *)
(*   scenario  how many Hit messages have been handled since construction, *)
(*             as long as each of them carried damage 20 and there were at *)
(*             most five; -1 from then on                                  *)
(*   lastMove  the Move message handled last, NoMove before the first      *)
(*   frames    how many update ticks the movement specification has run    *)
(***************************************************************************)
EXTENDS Integers, Sequences, FiniteSets, TLC

VARIABLES
    stage,          \* main.js: "menu" until a menu handler calls startSession
    camPos,         \* Player.camera.position
    velocity,       \* Player.velocity
    onGround,       \* Player.onGround
    isCrouching,    \* Player.isCrouching
    isSliding,      \* Player.isSliding
    slideTimer,     \* Player.slideTimer
    slideDirection, \* Player.slideDirection
    tHealth,        \* target.userData.health, per practice target
    tY,             \* target.position.y, per practice target
    tTimers,        \* pending respawn setTimeout callbacks, per practice target
    peers,          \* the Peer objects created so far, oldest first
    peer,           \* NetworkManager.peer: index into peers, 0 for null
    conns,          \* the connections handed to handleConnection, oldest first
    conn,           \* NetworkManager.conn: index into conns, 0 for null
    isHost,         \* NetworkManager.isHost
    intervals,      \* the setInterval(sendState) timers started so far
    fallback,       \* the random-match setTimeout is pending
    health,         \* NetworkManager.health
    remotePos,      \* NetworkManager.remotePlayerMesh.position
    remoteRotY,     \* NetworkManager.remotePlayerMesh.rotation.y
    ev,
    out,
    scenario,
    lastMove,
    frames

playerVars == <<camPos, velocity, onGround, isCrouching, isSliding, slideTimer, slideDirection>>
targetVars == <<tHealth, tY, tTimers>>
sessionVars == <<peers, peer, conns, conn, isHost, intervals, fallback>>
actorVars == <<health, remotePos, remoteRotY>>
historyVars == <<scenario, lastMove, frames>>
vars == <<stage, playerVars, targetVars, sessionVars, actorVars, ev, out, historyVars>>

----------------------------------------------------------------------------
(* Bounds of the model *)

\* practice targets in the scene (main.js creates 12)
NumTargets == 2
\* intersections one ray query returns
MaxRay == 2
\* respawn timers pending for one target
MaxTimers == 2
\* connections handed to handleConnection in one session
MaxConns == 1
\* connections handed to handleConnection while a session is being set up
MaxLinks == 2
\* update ticks in one run of the movement specification
MaxFrames == 4
MaxStrides == 9
\* Hit messages with a negative damage raise health without limit; the model
\* stops accepting them above this value
HealthCap == 140

(* Program constants *)

FullHealth == 100
HitDamage == 20
TargetDamage == 20
TargetUpY == 1
TargetSunkY == -5

Targets == 1..NumTargets

Vec(x, y, z) == [x |-> x, y |-> y, z |-> z]
Zero3 == Vec(0, 0, 0)

\* the eye height startSession and respawn place the camera at
SpawnY == 170
\* where the constructor parks the remote player's mesh
Sentinel == Vec(0, -1000, 0)
\* the offset onReceiveData subtracts from a Move's height
MeshDrop == 80

----------------------------------------------------------------------------
(* Inputs *)

\* Math.random() * 20 - 10 lies in [-10, 10)
SpawnCoords == {-1000, 999}

\* the view direction of a fire event (a unit vector)
Dirs == {Vec(0, 0, -100)}

\* what a ray can meet: a practice target, the remote player's capsule mesh,
\* and an obstacle, which stands for every other object of the scene (the
\* ground, the grid, the obstacle boxes)
Proxy == [kind |-> "proxy", id |-> 0]
Obstacle == [kind |-> "obstacle", id |-> 0]
Target(t) == [kind |-> "target", id |-> t]
Objects == {Target(t) : t \in Targets} \cup {Proxy, Obstacle}

SeqsUpTo(S, n) == UNION {[1..k -> S] : k \in 0..n}

\* the intersection lists a ray query can return, nearest first
Rays == SeqsUpTo(Objects, MaxRay)

MovePositions == {Vec(300, 170, -400), Vec(0, 250, 600)}
MoveYaws == {0, 157}
MoveMsgs == {[type |-> "move", pos |-> p, rot |-> [y |-> r], health |-> FullHealth] :
                p \in MovePositions, r \in MoveYaws}
ShootMsgs == {[type |-> "shoot", pos |-> Vec(0, 170, 0), dir |-> d] : d \in Dirs}
HitDamages == {HitDamage, -20}
HitMsgs == {[type |-> "hit", damage |-> d] : d \in HitDamages}
Inbound == MoveMsgs \cup ShootMsgs \cup HitMsgs

----------------------------------------------------------------------------
(* NetworkManager: sending *)

\* a send guard that forgets the open flag
CanSendUnopened == conn # 0

\* the negation of `!this.conn || !this.conn.open`, the early return of the
\* three send methods
CanSend == conn # 0 /\ conns[conn].state = "open"

\* The camera's orientation belongs to PointerLockControls, which turns it on
\* every mouse movement: a handler that reads it is given it as an input.
StateMsg(yaw) == [type |-> "move", pos |-> camPos, rot |-> [y |-> yaw], health |-> health]

\* what sendState hands to conn.send
sendState(yaw) == IF CanSend THEN <<[to |-> conn, msg |-> StateMsg(yaw)]>> ELSE <<>>

\* a sendShoot that mixes up its two arguments
sendShootSwapped(pos, dir) ==
    IF conn # 0 /\ conns[conn].state = "open"
    THEN <<[to |-> conn, msg |-> [type |-> "shoot", pos |-> dir, dir |-> pos]]>>
    ELSE <<>>

\* what sendShoot(pos, dir) hands to conn.send
sendShoot(pos, dir) ==
    IF CanSend THEN <<[to |-> conn, msg |-> [type |-> "shoot", pos |-> pos, dir |-> dir]]>>
    ELSE <<>>

\* a sendHit that hands the message to conn.send twice
sendHitTwice ==
    IF CanSend THEN <<[to |-> conn, msg |-> [type |-> "hit", damage |-> HitDamage]],
                      [to |-> conn, msg |-> [type |-> "hit", damage |-> HitDamage]]>>
    ELSE <<>>

\* what sendHit hands to conn.send
sendHit ==
    IF CanSend THEN <<[to |-> conn, msg |-> [type |-> "hit", damage |-> HitDamage]]>>
    ELSE <<>>

----------------------------------------------------------------------------
(* NetworkManager: receiving *)

NoMove == [type |-> "none"]

\* a Move handler that moves the mesh by the position instead of to it
MovePositionAdded(m) ==
    Vec(remotePos.x + m.pos.x, remotePos.y + m.pos.y - MeshDrop, remotePos.z + m.pos.z)

\* the mesh position a Move leaves behind
MovePosition(m) == Vec(m.pos.x, m.pos.y - MeshDrop, m.pos.z)

\* the mesh yaw a Move leaves behind
MoveYaw(m) == m.rot.y

\* a Move handler that adopts the health the sender reports
MoveHealthAdopted(m) == m.health

\* the local health a Move leaves behind: the handler reads data.health into
\* a constant it never uses
MoveHealth(m) == health

\* NaN, the number a subtraction gives when an operand is undefined or a
\* text that is no number; every further subtraction gives NaN again and
\* every comparison with it is false
NaN == -1000000

\* this.health -= data.damage
Damaged(h, d) == IF h = NaN \/ d = NaN THEN NaN ELSE h - d

\* a respawn test that lets health 0 live
DeadBelowZero(h) == h < 0

\* the test that sends onReceiveData into respawn
Dead(h) == h # NaN /\ h <= 0

\* this.health = 100 in respawn
RespawnHealth == FullHealth

\* this.player.velocity.set(0, 0, 0) in respawn
RespawnVelocity == Zero3

\* the positions camera.position.set(random, 1.7, random) can produce
RespawnPositions == {Vec(c, SpawnY, -c) : c \in SpawnCoords}

\* the history variable scenario after a Hit of damage d
NextScenario(d) ==
    IF scenario >= 0 /\ scenario < 5 /\ d = 20 THEN scenario + 1 ELSE -1

\* onReceiveData(data) for a message that arrived on connection c
Receive(c, m) ==
    /\ stage # "menu"
    /\ c \in 1..Len(conns)
    /\ conns[c].state = "open"
    /\ \/ /\ m.type = "move"
          /\ remotePos' = MovePosition(m)
          /\ remoteRotY' = MoveYaw(m)
          /\ lastMove' = m
          /\ health' = MoveHealth(m)
          /\ ev' = [op |-> "receive", msg |-> m, respawned |-> FALSE, again |-> m = lastMove]
          /\ UNCHANGED <<playerVars, scenario, frames>>
       \/ /\ m.type = "shoot"
          \* createTracer: a line that a timer removes again, nothing else
          /\ ev' = [op |-> "receive", msg |-> m, respawned |-> FALSE, again |-> FALSE]
          /\ UNCHANGED <<health, remotePos, remoteRotY, playerVars, historyVars>>
       \/ /\ m.type = "hit"
          /\ Damaged(health, m.damage) <= HealthCap
          /\ scenario' = NextScenario(m.damage)
          /\ IF Dead(Damaged(health, m.damage))
             THEN /\ health' = RespawnHealth
                  /\ camPos' \in RespawnPositions
                  /\ velocity' = RespawnVelocity
                  /\ ev' = [op |-> "receive", msg |-> m, respawned |-> TRUE, again |-> FALSE]
                  /\ UNCHANGED <<onGround, isCrouching, isSliding, slideTimer, slideDirection>>
             ELSE /\ health' = Damaged(health, m.damage)
                  /\ ev' = [op |-> "receive", msg |-> m, respawned |-> FALSE, again |-> FALSE]
                  /\ UNCHANGED playerVars
          /\ UNCHANGED <<remotePos, remoteRotY, lastMove, frames>>
    /\ out' = <<>>
    /\ UNCHANGED <<stage, targetVars, sessionVars>>

\* the callback of conn.on('data'), on any connection handleConnection saw
OnData == \E c \in 1..MaxConns, m \in Inbound : Receive(c, m)

\* objects a peer can send that are no Move, Shoot or Hit message
Unknown == {[type |-> "ping"], [type |-> "respawn", damage |-> HitDamage],
            [pos |-> Vec(0, 170, 0)]}

\* Move, Shoot and Hit messages with a field missing or no number
Malformed ==
    {[type |-> "hit"], [type |-> "hit", damage |-> NaN],
     [type |-> "move", rot |-> [y |-> 157], health |-> FullHealth],
     [type |-> "move", pos |-> Vec(-200, 170, 500), health |-> FullHealth],
     [type |-> "shoot", dir |-> Vec(0, 0, -100)],
     [type |-> "shoot", pos |-> Vec(0, 170, 0)]}

Has(m, f) == f \in DOMAIN m

\* a dispatcher whose last branch is a plain else
KindOrHit(m) == IF Has(m, "type") /\ m.type \in {"move", "shoot"} THEN m.type ELSE "hit"

\* data.type, "undefined" for an object without the field
Kind(m) == IF Has(m, "type") THEN m.type ELSE "undefined"

\* data.damage as the subtraction reads it
DamageOf(m) == IF Has(m, "damage") THEN m.damage ELSE NaN

\* onReceiveData(data) for an object of Unknown or Malformed that arrived on
\* connection c.  Reading a field of an undefined field throws a TypeError,
\* which ends the handler where it stands.
onFault(c, m) ==
    /\ stage # "menu"
    /\ c \in 1..Len(conns)
    /\ conns[c].state = "open"
    /\ \/ /\ Kind(m) = "move"
          /\ ~Has(m, "pos")
          \* pos.x throws before position.set is called
          /\ ev' = [op |-> "receive", msg |-> m, threw |-> TRUE]
          /\ UNCHANGED <<actorVars, playerVars, historyVars>>
       \/ /\ Kind(m) = "move"
          /\ Has(m, "pos")
          /\ ~Has(m, "rot")
          \* position.set has run when rot.y throws
          /\ remotePos' = MovePosition(m)
          /\ ev' = [op |-> "receive", msg |-> m, threw |-> TRUE]
          /\ UNCHANGED <<health, remoteRotY, playerVars, historyVars>>
       \/ /\ Kind(m) = "shoot"
          /\ ~Has(m, "pos") \/ ~Has(m, "dir")
          \* data.pos.x or data.dir.x throws before createTracer is called
          /\ ev' = [op |-> "receive", msg |-> m, threw |-> TRUE]
          /\ UNCHANGED <<actorVars, playerVars, historyVars>>
       \/ /\ Kind(m) = "hit"
          /\ DamageOf(m) = NaN
          \* NaN <= 0 is false: no respawn
          /\ health' = Damaged(health, DamageOf(m))
          /\ scenario' = -1
          /\ ev' = [op |-> "receive", msg |-> m, threw |-> FALSE]
          /\ UNCHANGED <<remotePos, remoteRotY, playerVars, lastMove, frames>>
       \/ /\ Kind(m) \notin {"move", "shoot", "hit"}
          \* no branch of the if chain is taken
          /\ ev' = [op |-> "receive", msg |-> m, threw |-> FALSE]
          /\ UNCHANGED <<actorVars, playerVars, historyVars>>
    /\ out' = <<>>
    /\ UNCHANGED <<stage, targetVars, sessionVars>>

OnFault == \E c \in 1..MaxConns, m \in Unknown \cup Malformed : onFault(c, m)

\* the setInterval callback started by a connection's open event
BroadcastTimer ==
    /\ intervals > 0
    /\ \E yaw \in MoveYaws : out' = sendState(yaw)
    /\ ev' = [op |-> "sendState"]
    /\ UNCHANGED <<stage, playerVars, targetVars, sessionVars, actorVars, historyVars>>

----------------------------------------------------------------------------
(* NetworkManager: peers and connections *)

\* setupPeer: a new Peer replaces this.peer; the old one is not destroyed
setupPeer(kind) ==
    /\ peers' = Append(peers, [kind |-> kind, open |-> FALSE])
    /\ peer' = Len(peers) + 1

\* createRoom
createRoom ==
    /\ isHost' = TRUE
    /\ setupPeer("create")

\* joinRoom: the connect call waits for the new peer's open event
joinRoom ==
    /\ isHost' = FALSE
    /\ setupPeer("join")

\* handleConnection(connection) for a connection of peer p
handleConnection(p, dir) ==
    /\ conns' = Append(conns, [peer |-> p, dir |-> dir, state |-> "pending"])
    /\ conn' = Len(conns) + 1

\* the callback of peer.on('open') of peer p: a joining peer's onReady calls
\* this.peer.connect, on whichever peer this.peer is by then.  The session
\* sees at most limit connections.
peerOpen(limit) ==
    \E p \in 1..Len(peers) :
        /\ ~peers[p].open
        /\ peers' = [peers EXCEPT ![p].open = TRUE]
        /\ IF peers[p].kind = "join"
           THEN Len(conns) < limit /\ handleConnection(peer, "out")
           ELSE UNCHANGED <<conns, conn>>
        /\ ev' = [op |-> "peerOpen", peer |-> p]
        /\ out' = <<>>
        /\ UNCHANGED <<stage, playerVars, targetVars, peer, isHost, intervals, fallback,
                       actorVars, historyVars>>

PeerOpen == peerOpen(MaxConns)

\* the callback of peer.on('connection'): a remote peer connected to peer p
peerConnection(limit) ==
    \E p \in 1..Len(peers) :
        /\ peers[p].open
        /\ Len(conns) < limit
        /\ handleConnection(p, "in")
        /\ ev' = [op |-> "peerConnection", peer |-> p]
        /\ out' = <<>>
        /\ UNCHANGED <<stage, playerVars, targetVars, peers, peer, isHost, intervals,
                       fallback, actorVars, historyVars>>

PeerConnection == peerConnection(MaxConns)

\* an error handler that sets up the peer again
peerErrorRetries(p) ==
    /\ p \in 1..Len(peers)
    /\ setupPeer(peers[p].kind)
    /\ ev' = [op |-> "peerError", peer |-> p]
    /\ out' = <<>>
    /\ UNCHANGED <<stage, playerVars, targetVars, conns, conn, isHost, intervals,
                   fallback, actorVars, historyVars>>

\* the callback of peer.on('error') of peer p: console.error and nothing else
peerError(p) ==
    /\ p \in 1..Len(peers)
    /\ ev' = [op |-> "peerError", peer |-> p]
    /\ out' = <<>>
    /\ UNCHANGED <<stage, playerVars, targetVars, sessionVars, actorVars, historyVars>>

PeerError == \E p \in 1..Len(peers) : peerError(p)

\* the callback of conn.on('open'): starts one more broadcast timer
ConnOpen ==
    \E c \in 1..Len(conns) :
        /\ conns[c].state = "pending"
        /\ conns' = [conns EXCEPT ![c].state = "open"]
        /\ intervals' = intervals + 1
        /\ ev' = [op |-> "connOpen", conn |-> c]
        /\ out' = <<>>
        /\ UNCHANGED <<stage, playerVars, targetVars, peers, peer, conn, isHost, fallback,
                       actorVars, historyVars>>

\* the transport closes a connection: its open flag reads false from then on.
\* The NetworkManager registers no handler for it.
ConnClose ==
    \E c \in 1..Len(conns) :
        /\ conns[c].state = "open"
        /\ conns' = [conns EXCEPT ![c].state = "closed"]
        /\ ev' = [op |-> "connClose", conn |-> c]
        /\ out' = <<>>
        /\ UNCHANGED <<stage, playerVars, targetVars, peers, peer, conn, isHost, intervals,
                       fallback, actorVars, historyVars>>

----------------------------------------------------------------------------
(* main.js: the menu handlers *)

\* startSession
startSession ==
    /\ stage = "menu"
    /\ camPos' = Vec(0, SpawnY, 0)
    /\ UNCHANGED <<velocity, onGround, isCrouching, isSliding, slideTimer, slideDirection>>

\* navPractice.onclick: startSession, addPracticeTargets
ClickPractice ==
    /\ startSession
    /\ stage' = "practice"
    /\ tHealth' = [t \in Targets |-> FullHealth]
    /\ tY' = [t \in Targets |-> TargetUpY]
    /\ tTimers' = [t \in Targets |-> 0]
    /\ ev' = [op |-> "clickPractice"]
    /\ out' = <<>>
    /\ UNCHANGED <<sessionVars, actorVars, historyVars>>

\* btn-create-room.onclick
ClickCreateRoom ==
    /\ startSession
    /\ stage' = "match"
    /\ createRoom
    /\ ev' = [op |-> "clickCreateRoom"]
    /\ out' = <<>>
    /\ UNCHANGED <<targetVars, conns, conn, intervals, fallback, actorVars, historyVars>>

\* btn-join-room.onclick with a room id typed in
ClickJoinRoom ==
    /\ startSession
    /\ stage' = "match"
    /\ joinRoom
    /\ ev' = [op |-> "clickJoinRoom"]
    /\ out' = <<>>
    /\ UNCHANGED <<targetVars, conns, conn, intervals, fallback, actorVars, historyVars>>

\* btn-random-match.onclick: joinRoom, and a timer that may createRoom later
ClickRandomMatch ==
    /\ startSession
    /\ stage' = "match"
    /\ joinRoom
    /\ fallback' = TRUE
    /\ ev' = [op |-> "clickRandomMatch"]
    /\ out' = <<>>
    /\ UNCHANGED <<targetVars, conns, conn, intervals, actorVars, historyVars>>

\* the setTimeout callback of btn-random-match.onclick
FallbackTimer ==
    /\ fallback
    /\ fallback' = FALSE
    /\ IF conn = 0 THEN createRoom ELSE UNCHANGED <<isHost, peers, peer>>
    /\ ev' = [op |-> "fallbackTimer"]
    /\ out' = <<>>
    /\ UNCHANGED <<stage, playerVars, targetVars, conns, conn, intervals, actorVars, historyVars>>

----------------------------------------------------------------------------
(* Player: shoot and hitTarget *)

None == [kind |-> "none", id |-> 0]

\* intersect.object.userData.isTarget
IsTarget(o) == o.kind = "target"

\* the remote-mesh test of a player whose network field was never set
NoNetwork(o) == FALSE

\* this.network && intersect.object === this.network.remotePlayerMesh; main.js
\* sets player.network right after constructing the player
IsRemoteMesh(o) == o.kind = "proxy"

\* The loop of shoot over the intersections, nearest first: the intersection
\* at which it breaks, None when it runs to the end.
RECURSIVE Counted(_)
Counted(ray) ==
    IF ray = <<>> THEN None
    ELSE IF IsTarget(Head(ray)) THEN Head(ray)
    ELSE IF IsRemoteMesh(Head(ray)) THEN Head(ray)
    ELSE Counted(Tail(ray))

\* a hit that is applied twice
TargetHitTwice(h) == h - 2 * TargetDamage

\* obj.userData.health -= 20
TargetHit(h) == h - TargetDamage

\* a sink test that leaves a target at health 0 standing
SinksBelowZero(h) == h < 0

\* the test of hitTarget that sinks the target and arms its respawn
Sinks(h) == h <= 0

\* hitTarget(obj) for target t
hitTarget(t) ==
    LET h == TargetHit(tHealth[t]) IN
    /\ tHealth' = [tHealth EXCEPT ![t] = h]
    /\ IF Sinks(h)
       THEN /\ tTimers[t] < MaxTimers
            /\ tY' = [tY EXCEPT ![t] = TargetSunkY]
            /\ tTimers' = [tTimers EXCEPT ![t] = @ + 1]
       ELSE UNCHANGED <<tY, tTimers>>

\* The rays the scene can give.  Targets are in the scene only in a practice
\* session.  The remote player's mesh stays parked under the floor until a
\* Move arrives; seen from the camera, which never goes below the crouch
\* height, a mesh parked there lies behind every target on the same ray.
RayOK(ray) ==
    /\ stage # "practice" => \A i \in 1..Len(ray) : ray[i].kind # "target"
    /\ remotePos = Sentinel =>
          \A i, j \in 1..Len(ray) :
              ray[i].kind = "proxy" /\ ray[j].kind = "target" => j < i

\* shoot(), called by the mousedown listener while the controls are locked
Fire ==
    \E ray \in Rays, dir \in Dirs :
        /\ stage # "menu"
        /\ RayOK(ray)
        /\ IF IsTarget(Counted(ray))
           THEN hitTarget(Counted(ray).id)
           ELSE UNCHANGED targetVars
        /\ out' = (IF IsRemoteMesh(Counted(ray)) THEN sendHit ELSE <<>>)
                    \o sendShoot(camPos, dir)
        /\ ev' = [op |-> "shoot", ray |-> ray, dir |-> dir]
        /\ UNCHANGED <<stage, playerVars, sessionVars, actorVars, historyVars>>

\* the setTimeout callback hitTarget arms for a sunk target, for target t
RespawnTimerOf(t) ==
    /\ stage = "practice"
    /\ tTimers[t] > 0
    /\ tY' = [tY EXCEPT ![t] = TargetUpY]
    /\ tHealth' = [tHealth EXCEPT ![t] = FullHealth]
    /\ tTimers' = [tTimers EXCEPT ![t] = @ - 1]
    /\ ev' = [op |-> "respawnTimer", target |-> t]
    /\ out' = <<>>
    /\ UNCHANGED <<stage, playerVars, sessionVars, actorVars, historyVars>>

RespawnTimer == \E t \in Targets : RespawnTimerOf(t)

----------------------------------------------------------------------------
(* Player: update (src/unnamed/part_003) *)

Gravity == 3600
JumpForce == 1350
FrictionTenths == 70
SlideFrictionTenths == 5
HeadHeight == 170
CrouchHeight == 100
SlideSpeed == 1200
SlideTime == 500
SlideBoost == 18
SlidePush == 35
GroundAccel == 160
AirAccel == 100
WorldRadius == 10000

\* integer division that rounds toward zero
Trunc(n, d) == IF n >= 0 THEN n \div d ELSE -((-n) \div d)

\* the largest r with r * r <= n, for n >= 0, by bisection of lo..hi
RECURSIVE Bisect(_, _, _)
Bisect(n, lo, hi) ==
    IF lo >= hi THEN lo
    ELSE LET mid == (lo + hi + 1) \div 2 IN
         IF mid * mid <= n THEN Bisect(n, mid, hi) ELSE Bisect(n, lo, mid - 1)

ISqrt(n) == Bisect(n, 0, 46340)

Bit(b) == IF b THEN 1 ELSE 0

\* Vector3.normalize of (x, 0, z), in hundredths; the zero vector stays zero
Unit2(x, z) ==
    LET len == ISqrt(x * x + z * z) IN
    IF len = 0 THEN [x |-> 0, z |-> 0]
    ELSE [x |-> Trunc(x * 100, len), z |-> Trunc(z * 100, len)]

\* the key states update reads
NoKeys == [forward |-> FALSE, backward |-> FALSE, left |-> FALSE, right |-> FALSE,
           jump |-> FALSE, shift |-> FALSE]

\* the camera's horizontal view directions the model turns it to
CamDirs == {[x |-> 0, z |-> -1], [x |-> 1, z |-> 0], [x |-> 0, z |-> 1], [x |-> -1, z |-> 0]}

\* a floor that is always at standing height
TargetHeightStanding(shift) == HeadHeight

\* targetHeight: the eye height the floor collision uses in this tick
TargetHeight(shift) == IF shift THEN CrouchHeight ELSE HeadHeight

\* the slide trigger: shift newly held, on the ground, faster than 12
Trigger(keys) ==
    /\ keys.shift
    /\ ~isCrouching
    /\ onGround
    /\ velocity.x * velocity.x + velocity.z * velocity.z > SlideSpeed * SlideSpeed
    /\ ~isSliding

\* this.isSliding and this.slideTimer when the friction step reads them,
\* after the crouch block and the sliding update
SlideAtFriction(keys, delta) ==
    LET sliding1 == IF keys.shift THEN (isSliding \/ Trigger(keys)) ELSE FALSE
        timer1 == IF Trigger(keys) THEN SlideTime ELSE slideTimer
        timer2 == IF sliding1 THEN timer1 - delta ELSE timer1
    IN  [sliding |-> sliding1 /\ timer2 > 0, timer |-> timer2]

\* a friction step that does not look at the slide
FrictionStandard(sliding) == FrictionTenths

\* frictionFactor, in tenths
FrictionOf(sliding) == IF sliding THEN SlideFrictionTenths ELSE FrictionTenths

\* a boundary that stops each coordinate at the radius on its own axis
OntoSquare(c, dist) ==
    IF c > WorldRadius THEN WorldRadius ELSE IF c < -WorldRadius THEN -WorldRadius ELSE c

\* Math.cos(angle) * 100 and Math.sin(angle) * 100 for the angle of a point
\* at distance dist from the origin: the coordinate c scaled to the radius
OntoCircle(c, dist) == Trunc(c * WorldRadius, dist)

\* update(delta) with the controls locked, for the keys held and the camera
\* direction at that frame.  With the controls unlocked update returns at
\* once and changes nothing.
update(keys, delta, cam) ==
    LET vy1 == velocity.y - Trunc(Gravity * delta, 1000)
        \* Movement Direction
        dirn == Unit2(100 * (Bit(keys.right) - Bit(keys.left)),
                      100 * (Bit(keys.forward) - Bit(keys.backward)))
        \* Crouching & Sliding Logic
        trigger == Trigger(keys)
        sd == IF trigger THEN Unit2(velocity.x, velocity.z) ELSE slideDirection
        v1 == IF trigger
              THEN [x |-> velocity.x + sd.x * SlideBoost, z |-> velocity.z + sd.z * SlideBoost]
              ELSE [x |-> velocity.x, z |-> velocity.z]
        crouch1 == keys.shift
        targetHeight == TargetHeight(keys.shift)
        \* Sliding update
        timer2 == SlideAtFriction(keys, delta).timer
        sliding2 == SlideAtFriction(keys, delta).sliding
        v2 == IF sliding2
              THEN [x |-> v1.x + Trunc(sd.x * SlidePush * delta, 1000),
                    z |-> v1.z + Trunc(sd.z * SlidePush * delta, 1000)]
              ELSE v1
        \* Apply Friction
        tenths == FrictionOf(sliding2)
        v3 == IF onGround
              THEN [x |-> Trunc(v2.x * (10000 - tenths * delta), 10000),
                    z |-> Trunc(v2.z * (10000 - tenths * delta), 10000)]
              ELSE v2
        \* Acceleration
        base == IF onGround THEN GroundAccel ELSE AirAccel
        accel == IF crouch1 /\ ~sliding2 THEN Trunc(base * 4, 10) ELSE base
        side == [x |-> cam.z, z |-> -cam.x]
        along == Trunc(dirn.z * accel * delta, 1000)
        across == Trunc(-dirn.x * accel * delta, 1000)
        v4 == IF dirn.x # 0 \/ dirn.z # 0
              THEN [x |-> v3.x + cam.x * along + side.x * across,
                    z |-> v3.z + cam.z * along + side.z * across]
              ELSE v3
        \* Jump
        jump == keys.jump /\ onGround
        vy2 == IF jump THEN JumpForce ELSE vy1
        sliding3 == sliding2 /\ ~jump
        \* Apply Velocity
        nx == camPos.x + Trunc(v4.x * delta, 1000)
        ny == camPos.y + Trunc(vy2 * delta, 1000)
        nz == camPos.z + Trunc(v4.z * delta, 1000)
        \* World Boundaries
        dist == ISqrt(nx * nx + nz * nz)
        outside == nx * nx + nz * nz > WorldRadius * WorldRadius
        bx == IF outside THEN OntoCircle(nx, dist) ELSE nx
        bz == IF outside THEN OntoCircle(nz, dist) ELSE nz
        \* Floor Collision
        landed == ny < targetHeight
    IN  /\ camPos' = Vec(bx, IF landed THEN targetHeight ELSE ny, bz)
        /\ velocity' = Vec(v4.x, IF landed THEN 0 ELSE vy2, v4.z)
        /\ onGround' = landed
        /\ isCrouching' = crouch1
        /\ isSliding' = sliding3
        /\ slideTimer' = timer2
        /\ slideDirection' = sd

\* the frames the combat and network model runs between its events: no
\* key or the jump key held, half a second apart
FrameKeys == {NoKeys, [NoKeys EXCEPT !.jump = TRUE]}
FrameDeltas == {500}

\* animate: player.update(clock.getDelta()) once the session has started
Tick ==
    \E keys \in FrameKeys, delta \in FrameDeltas, cam \in {[x |-> 0, z |-> -1]} :
        /\ stage # "menu"
        /\ update(keys, delta, cam)
        /\ ev' = [op |-> "update"]
        /\ out' = <<>>
        /\ UNCHANGED <<stage, targetVars, sessionVars, actorVars, historyVars>>

\* the keys held in a frame of the movement specification: none, forward,
\* forward with crouch, forward with jump, forward with both
MoveKeys ==
    {NoKeys,
     [NoKeys EXCEPT !.forward = TRUE],
     [NoKeys EXCEPT !.forward = TRUE, !.shift = TRUE],
     [NoKeys EXCEPT !.forward = TRUE, !.jump = TRUE],
     [NoKeys EXCEPT !.forward = TRUE, !.shift = TRUE, !.jump = TRUE]}

\* clock.getDelta() in milliseconds: a frame at 20 Hz and a frame after a stall
MoveDeltas == {50, 250}

\* animate calling player.update(delta) with keys held; ev keeps the friction
\* coefficient the tick applied, 0 for a tick that began in the air
frameWithin(limit, keys, delta, cam) ==
    /\ stage # "menu"
    /\ frames < limit
    /\ update(keys, delta, cam)
    /\ frames' = frames + 1
    /\ ev' = [op |-> "update", keys |-> keys, delta |-> delta,
              friction |-> IF onGround THEN FrictionOf(SlideAtFriction(keys, delta).sliding)
                           ELSE 0]
    /\ out' = <<>>
    /\ UNCHANGED <<stage, targetVars, sessionVars, actorVars, scenario, lastMove>>

frame(keys, delta, cam) == frameWithin(MaxFrames, keys, delta, cam)

Frame ==
    \E keys \in MoveKeys, delta \in MoveDeltas, cam \in {[x |-> 0, z |-> -1]} :
        frame(keys, delta, cam)

\* the keys held on a run to the edge of the world: forward and right, the
\* same with the jump key, and forward alone with the jump key
RunKeys ==
    {[NoKeys EXCEPT !.forward = TRUE, !.right = TRUE],
     [NoKeys EXCEPT !.forward = TRUE, !.right = TRUE, !.jump = TRUE],
     [NoKeys EXCEPT !.forward = TRUE, !.jump = TRUE]}

RunDeltas == {250}

\* animate calling player.update(delta) on that run
Stride ==
    \E keys \in RunKeys, delta \in RunDeltas, cam \in {[x |-> 0, z |-> -1]} :
        frameWithin(MaxStrides, keys, delta, cam)

----------------------------------------------------------------------------
(* The client in a practice session and in a match it hosts *)

Init ==
    /\ stage = "menu"
    /\ camPos = Vec(2000, 2000, 2000)
    /\ velocity = Zero3
    /\ onGround = FALSE
    /\ isCrouching = FALSE
    /\ isSliding = FALSE
    /\ slideTimer = 0
    /\ slideDirection = [x |-> 0, z |-> 0]
    /\ tHealth = [t \in Targets |-> FullHealth]
    /\ tY = [t \in Targets |-> TargetUpY]
    /\ tTimers = [t \in Targets |-> 0]
    /\ peers = <<>>
    /\ peer = 0
    /\ conns = <<>>
    /\ conn = 0
    /\ isHost = FALSE
    /\ intervals = 0
    /\ fallback = FALSE
    /\ health = FullHealth
    /\ remotePos = Sentinel
    /\ remoteRotY = 0
    /\ ev = [op |-> "init"]
    /\ out = <<>>
    /\ scenario = 0
    /\ lastMove = NoMove
    /\ frames = 0

Next ==
    \/ ClickPractice
    \/ ClickCreateRoom
    \/ PeerOpen
    \/ PeerConnection
    \/ ConnOpen
    \/ ConnClose
    \/ OnData
    \/ BroadcastTimer
    \/ Fire
    \/ RespawnTimer
    \/ Tick

Spec == Init /\ [][Next]_vars

\* The same client with the browser's timer queue stated: a timeout that is
\* due runs, so a pending respawn callback is not postponed forever.
LiveSpec == Init /\ [][Next]_vars /\ \A t \in Targets : WF_vars(RespawnTimerOf(t))

\* The player's first frames in a practice session, with the keys and the
\* frame time free in every frame.
MoveNext ==
    \/ ClickPractice
    \/ Frame

MoveSpec == Init /\ [][MoveNext]_vars

\* A practice session in which the player runs and jumps diagonally away from
\* the spawn point until the world boundary stops them.
RunNext ==
    \/ ClickPractice
    \/ Stride

RunSpec == Init /\ [][RunNext]_vars

\* the peers and connections of a session that is being set up
SessionPeerOpen == peerOpen(MaxLinks)
SessionPeerConnection == peerConnection(MaxLinks)

\* a Hit message arrives on one of the connections
Deliver == \E c \in 1..MaxLinks : Receive(c, [type |-> "hit", damage |-> HitDamage])

\* The client from the menu to a connected match, by each of the three
\* buttons, with the signalling errors and the connections the transport
\* can bring.
SessionNext ==
    \/ ClickCreateRoom
    \/ ClickJoinRoom
    \/ ClickRandomMatch
    \/ FallbackTimer
    \/ SessionPeerOpen
    \/ SessionPeerConnection
    \/ PeerError
    \/ ConnOpen
    \/ ConnClose
    \/ Deliver
    \/ BroadcastTimer

SessionSpec == Init /\ [][SessionNext]_vars

\* the keys held in a frame of a match in which the player slides: none,
\* forward, forward with crouch, crouch alone
SlideKeys ==
    {NoKeys,
     [NoKeys EXCEPT !.forward = TRUE],
     [NoKeys EXCEPT !.forward = TRUE, !.shift = TRUE],
     [NoKeys EXCEPT !.shift = TRUE]}

\* animate calling player.update(delta) in that match
Sprint ==
    \E keys \in SlideKeys, delta \in MoveDeltas, cam \in {[x |-> 0, z |-> -1]} :
        frame(keys, delta, cam)

\* a Hit message that takes all of a full health arrives
Strike == \E c \in 1..MaxConns : Receive(c, [type |-> "hit", damage |-> FullHealth])

\* A hosted match in which the player runs and slides while lethal Hit
\* messages arrive.
RespawnNext ==
    \/ ClickCreateRoom
    \/ PeerOpen
    \/ PeerConnection
    \/ ConnOpen
    \/ Sprint
    \/ Strike

RespawnSpec == Init /\ [][RespawnNext]_vars

\* A hosted match in which the peer also sends objects that are no well-formed
\* Move, Shoot or Hit message.
FaultNext ==
    \/ ClickCreateRoom
    \/ PeerOpen
    \/ PeerConnection
    \/ ConnOpen
    \/ OnData
    \/ OnFault

FaultSpec == Init /\ [][FaultNext]_vars

----------------------------------------------------------------------------
(* Properties *)

\* this.conn is set and its open flag is true
ConnectionOpen == conn # 0 /\ conns[conn].state = "open"

\* the positions in o of the messages of one type
Sent(o, type) == {i \in 1..Len(o) : o[i].msg.type = type}

\* the intersection of ray that counts is the remote player's mesh: the mesh
\* is on the ray and no target and no earlier mesh intersection is nearer
ProxyCounted(ray) ==
    \E i \in 1..Len(ray) :
        /\ ray[i].kind = "proxy"
        /\ \A j \in 1..(i - 1) : ray[j].kind \notin {"target", "proxy"}

\* an obstacle is on the ray, nearer than every target and the remote mesh
ObstacleNearest(ray) ==
    \E i \in 1..Len(ray) :
        /\ ray[i].kind = "obstacle"
        /\ \A j \in 1..Len(ray) : ray[j].kind \in {"target", "proxy"} => i < j

\* ray[i] is the nearest intersection with a target, and no obstacle is nearer
TargetBeforeObstacle(ray, i) ==
    /\ ray[i].kind = "target"
    /\ \A j \in 1..(i - 1) : ray[j].kind \notin {"target", "obstacle"}

(* C1: after every inbound Hit message, handled to the end with the damage
   it carries, the local actor's health is within 0..100. *)
HealthWithinRange == health \in 0..100

(* C2: from health 100, the first four Hit messages of damage 20 leave health
   at 80, 60, 40, 20 without a respawn; the fifth runs respawn, after which
   health is 100, velocity is zero and the camera is at a spawn point. *)
FiveHitsRespawnOnce ==
    (ev.op = "receive" /\ ev.msg.type = "hit" /\ scenario \in 1..5) =>
        IF scenario < 5
        THEN health = 100 - 20 * scenario /\ ~ev.respawned
        ELSE /\ ev.respawned
             /\ health = 100
             /\ velocity = [x |-> 0, y |-> 0, z |-> 0]
             /\ camPos.y = 170
             /\ camPos.x \in -1000..1000
             /\ camPos.z \in -1000..1000

FifthHitHandled ==
    ev.op = "receive" /\ ev.msg.type = "hit" /\ scenario = 5 /\ ev.respawned

(* C3: the remote actor's mesh is where the Move handled last puts it (the
   parking place before the first Move), whatever other messages were
   handled, and handling the same Move again changes nothing of it. *)
RemoteIsLastMove ==
    /\ [](IF lastMove = NoMove
          THEN remotePos = [x |-> 0, y |-> -1000, z |-> 0] /\ remoteRotY = 0
          ELSE /\ remotePos = [x |-> lastMove.pos.x, y |-> lastMove.pos.y - 80,
                               z |-> lastMove.pos.z]
               /\ remoteRotY = lastMove.rot.y)
    /\ [][(ev'.op = "receive" /\ ev'.again) =>
              remotePos' = remotePos /\ remoteRotY' = remoteRotY]_vars

SameMoveTwice == ev.op = "receive" /\ ev.msg.type = "move" /\ ev.again

(* C4: a handler that runs while this.conn is null or not open hands nothing
   to the transport, and sendState in that state changes no state. *)
NothingSentUnlessOpen ==
    [][~ConnectionOpen =>
          /\ out' = <<>>
          /\ ev'.op = "sendState" =>
                UNCHANGED <<stage, playerVars, targetVars, sessionVars, actorVars>>]_vars

BroadcastAfterClose ==
    ev.op = "sendState" /\ conn # 0 /\ conns[conn].state = "closed" /\ out = <<>>

(* C5: a fire event whose counted intersection is the remote player's mesh
   sends one Hit of damage 20 if the connection is open and none otherwise,
   and changes no health; the local health changes only when a Hit message
   is received. *)
ProxyHitOnlyNotifies ==
    [][/\ (ev'.op = "shoot" /\ ProxyCounted(ev'.ray)) =>
            /\ health' = health
            /\ tHealth' = tHealth
            /\ Cardinality(Sent(out', "hit")) = IF ConnectionOpen THEN 1 ELSE 0
            /\ \A i \in Sent(out', "hit") : out'[i].to = conn /\ out'[i].msg.damage = 20
       /\ health' # health => ev'.op = "receive" /\ ev'.msg.type = "hit"]_vars

ProxyHitSent ==
    ev.op = "shoot" /\ ProxyCounted(ev.ray) /\ Cardinality(Sent(out, "hit")) = 1

(* C6: a fire event sends one Shoot message with the camera position and the
   view direction if the connection is open, whatever the ray met, and no
   Shoot message otherwise. *)
EveryShotIsBroadcast ==
    [][ev'.op = "shoot" =>
          IF ConnectionOpen
          THEN /\ Cardinality(Sent(out', "shoot")) = 1
               /\ \A i \in Sent(out', "shoot") :
                     /\ out'[i].to = conn
                     /\ out'[i].msg = [type |-> "shoot", pos |-> camPos, dir |-> ev'.dir]
          ELSE Sent(out', "shoot") = {}]_vars

MissBroadcast ==
    /\ ev.op = "shoot"
    /\ ev.ray \in {<<>>, <<Obstacle>>}
    /\ Cardinality(Sent(out, "shoot")) = 1
    /\ velocity.y # 0

(* C7: when the nearest thing a fire event's ray meets is an obstacle, no
   target's health changes and no Hit message is sent. *)
ObstacleBlocksShot ==
    [][(ev'.op = "shoot" /\ ObstacleNearest(ev'.ray)) =>
          tHealth' = tHealth /\ Sent(out', "hit") = {}]_vars

(* C8: a fire event whose ray meets a target with no obstacle nearer lowers
   the health of the nearest such target by 20, once, and leaves every other
   target's health as it was. *)
NearestTargetHitOnce ==
    [][ev'.op = "shoot" =>
          \A i \in 1..Len(ev'.ray) :
              TargetBeforeObstacle(ev'.ray, i) =>
                  tHealth' = [tHealth EXCEPT ![ev'.ray[i].id] = @ - 20]]_vars

ShotThroughTwoTargets ==
    /\ ev.op = "shoot"
    /\ Len(ev.ray) = 2
    /\ ev.ray[1] = Target(1)
    /\ ev.ray[2] = Target(2)
    /\ tHealth[1] = 80
    /\ tHealth[2] = 100

(* C9: a hit that brings a target's health to 0 or below sinks it and arms one
   respawn timer in the same step, and a sunk target is eventually standing
   again with health 100. *)
SunkTargetComesBack ==
    /\ [][\A t \in Targets :
             (tHealth'[t] # tHealth[t] /\ tHealth'[t] <= 0) =>
                 tY'[t] = -5 /\ tTimers'[t] = tTimers[t] + 1]_vars
    /\ \A t \in Targets : (tY[t] = -5) ~> (tY[t] = 1 /\ tHealth[t] = 100)

TargetJustSunk ==
    /\ ev.op = "shoot"
    /\ \E t \in Targets : tY[t] = -5 /\ tHealth[t] = 0 /\ tTimers[t] = 1

(* C10: every target's health is within 0..100 in every state fire events
   and respawn timers reach, fire events at a sunk target included. *)
TargetHealthWithinRange == \A t \in Targets : tHealth[t] \in 0..100

(* C11: update ticks, fire events, the broadcast timer's sends and inbound
   Move and Shoot messages leave the local health as it was; a step that
   changes it handles an inbound Hit message. *)
HealthChangedByHitOnly ==
    [][/\ (\/ ev'.op \in {"update", "shoot", "sendState"}
           \/ ev'.op = "receive" /\ ev'.msg.type \in {"move", "shoot"}) => health' = health
       /\ health' # health => ev'.op = "receive" /\ ev'.msg.type = "hit"]_vars

MoveKeepsDamagedHealth ==
    ev.op = "receive" /\ ev.msg.type = "move" /\ health = 60 /\ ev.msg.health = 100

\* m carries no kind or a kind the dispatcher has no branch for
UnknownKind(m) == ~Has(m, "type") \/ m.type \notin {"move", "shoot", "hit"}

(* C12: handling an inbound object whose kind is none of move, shoot, hit
   throws nothing and leaves the local health, the camera position, the
   velocity and the remote mesh as they were. *)
UnknownKindDropped ==
    [][(ev'.op = "receive" /\ UnknownKind(ev'.msg)) =>
          /\ ~ev'.threw
          /\ UNCHANGED <<health, camPos, velocity, remotePos, remoteRotY>>]_vars

UnknownAfterDamage ==
    /\ ev.op = "receive"
    /\ UnknownKind(ev.msg)
    /\ health = 80
    /\ lastMove # NoMove

(* C13: handling a Move, Shoot or Hit message with a field missing or no
   number throws nothing, leaves the local health a number within 0..100 and
   leaves the player and the remote mesh as they were. *)
MalformedDropped ==
    [][(ev'.op = "receive" /\ ev'.msg \in Malformed) =>
          /\ ~ev'.threw
          /\ health' \in 0..100
          /\ UNCHANGED <<health, playerVars, remotePos, remoteRotY>>]_vars

\* the connections whose data handler the transport still calls: handed to
\* handleConnection, which attaches the handler for good, and open
Delivering == {c \in 1..Len(conns) : conns[c].state = "open"}

(* C14: in every reachable state at most one connection delivers inbound
   messages to onReceiveData. *)
OneLogicalConnection == Cardinality(Delivering) <= 1

(* C15: in every reachable state at most one broadcast timer is running,
   however many connections have opened. *)
OneBroadcastTimer == intervals <= 1

(* C16: handling a peer's error signal creates no peer and no connection and
   leaves this.peer, this.conn and the role as they were; a session without
   a connection is still without one after it. *)
ErrorIsTerminal ==
    [][ev'.op = "peerError" =>
          /\ UNCHANGED <<peers, peer, conns, conn, isHost, intervals, fallback>>
          /\ conn = 0 => conn' = 0]_vars

ErrorWhileUnconnected ==
    ev.op = "peerError" /\ conn = 0 /\ peer # 0 /\ ~peers[peer].open

\* the square of the horizontal speed, and the square of the slide threshold 12
Speed2 == velocity.x * velocity.x + velocity.z * velocity.z
Threshold2 == 1200 * 1200

(* C17: an update tick with crouch held that starts on the ground, faster
   than 12 and not sliding arms the slide timer to 0.5 s, which the same
   tick lowers by delta, and ends sliding unless the tick also jumps or is
   0.5 s long; whether crouch was held before makes no difference. *)
SlideEntered ==
    [][(ev'.op = "update" /\ ev'.keys.shift /\ onGround /\ Speed2 > Threshold2
          /\ ~isSliding) =>
          /\ slideTimer' = 500 - ev'.delta
          /\ isSliding' \/ ev'.keys.jump \/ ev'.delta >= 500]_vars

(* C18: a tick that starts sliding with crouch held lowers the slide timer by
   delta; a slide begins with the timer at 0.5 s less that tick's delta; a
   tick that leaves the timer at 0 or below, or in which crouch is not held,
   ends not sliding, so a slide lasts less than 0.5 s; and a tick that starts
   on the ground applies the friction coefficient 0.5 if the slide is on at
   its end, or was on until the tick's own jump cancelled it, and 7.0
   otherwise. *)
SlideRunsOut ==
    /\ [](isSliding => slideTimer > 0 /\ slideTimer < 500)
    /\ [][ev'.op = "update" =>
            /\ (isSliding /\ ev'.keys.shift) => slideTimer' = slideTimer - ev'.delta
            /\ (~isSliding /\ isSliding') => slideTimer' = 500 - ev'.delta
            /\ slideTimer' <= 0 => ~isSliding'
            /\ ~ev'.keys.shift => ~isSliding'
            /\ onGround =>
                  ev'.friction =
                      IF \/ isSliding'
                         \/ /\ ev'.keys.jump
                            /\ ev'.keys.shift
                            /\ slideTimer' > 0
                            /\ isSliding \/ (~isCrouching /\ Speed2 > Threshold2)
                      THEN 5 ELSE 70]_vars

SlideTimedOut ==
    /\ ev.op = "update"
    /\ ev.keys.shift
    /\ ev.friction = 70
    /\ ~isSliding
    /\ isCrouching
    /\ slideDirection.z # 0
    /\ slideTimer = 0

(* C19: an update tick with jump held that starts on the ground ends with the
   vertical velocity at jumpForce, in the air and not sliding. *)
JumpLeavesGround ==
    [][(ev'.op = "update" /\ ev'.keys.jump /\ onGround) =>
          velocity'.y = 1350 /\ ~onGround' /\ ~isSliding']_vars

(* C20: an update tick ends with the camera at or above the tick's eye height
   (1.7, or 1.0 with crouch held); it ends on the ground exactly when the
   integrated height is below that height, then at that height with vertical
   velocity 0, and else in the air at the integrated height. *)
FloorHolds ==
    [][ev'.op = "update" =>
          LET th == IF ev'.keys.shift THEN 100 ELSE 170
              vy == IF ev'.keys.jump /\ onGround THEN 1350
                    ELSE velocity.y - Trunc(3600 * ev'.delta, 1000)
              ny == camPos.y + Trunc(vy * ev'.delta, 1000)
          IN  /\ camPos'.y >= th
              /\ onGround' <=> ny < th
              /\ onGround' => camPos'.y = th /\ velocity'.y = 0
              /\ ~onGround' => camPos'.y = ny /\ velocity'.y = vy]_vars

CrouchedLanding ==
    ev.op = "update" /\ ev.keys.shift /\ onGround /\ camPos.y = 100 /\ velocity.y = 0

----------------------------------------------------------------------------
(* The world boundary *)

\* the squared horizontal distance of a point from the origin
Dist2(x, z) == x * x + z * z

\* nextPos of the tick that has just run: the position before it plus the
\* velocity it left, over its frame time
IntegratedX == camPos.x + Trunc(velocity'.x * ev'.delta, 1000)
IntegratedZ == camPos.z + Trunc(velocity'.z * ev'.delta, 1000)

\* C21: after every update tick the player is at most WorldRadius from the
\* origin horizontally, and a tick whose integrated position lies beyond
\* WorldRadius leaves the player on the circle of that radius at the angle of
\* the integrated position: same quadrant, and a cross product that is zero.
\* Each comparison allows the last digit of the number representation (one
\* hundredth outwards, two inwards, the rounding of one coordinate in the
\* cross product).
Rounded == WorldRadius + 1

StaysInsideBoundary ==
    [][ev'.op = "update" =>
         /\ Dist2(camPos'.x, camPos'.z) <= Rounded * Rounded
         /\ Dist2(IntegratedX, IntegratedZ) > WorldRadius * WorldRadius =>
              /\ Dist2(camPos'.x, camPos'.z) >= (WorldRadius - 2) * (WorldRadius - 2)
              /\ camPos'.x * IntegratedX >= 0
              /\ camPos'.z * IntegratedZ >= 0
              /\ LET cross == camPos'.x * IntegratedZ - camPos'.z * IntegratedX
                      slack == (IF IntegratedX >= 0 THEN IntegratedX ELSE -IntegratedX)
                               + (IF IntegratedZ >= 0 THEN IntegratedZ ELSE -IntegratedZ)
                 IN  cross <= slack /\ -cross <= slack]_vars

\* a tick has just put the player back onto the boundary circle, off both axes
StoppedAtBoundary ==
    /\ ev.op = "update"
    /\ Dist2(camPos.x, camPos.z) >= (WorldRadius - 2) * (WorldRadius - 2)
    /\ camPos.x > 0
    /\ camPos.z < 0
    /\ camPos.x # -camPos.z

----------------------------------------------------------------------------
(* Friction *)

\* C22: in a tick with no key held that begins on the ground, for every frame
\* time, each horizontal velocity component keeps its sign or becomes 0, and
\* the horizontal speed, if it was not zero, is lower after the tick.
FrictionSlowsDown ==
    [][(ev'.op = "update" /\ ev'.keys = NoKeys /\ onGround) =>
         /\ velocity'.x * velocity.x >= 0
         /\ velocity'.z * velocity.z >= 0
         /\ Speed2 > 0 => Speed2' < Speed2]_vars

----------------------------------------------------------------------------
(* The wall jump *)

\* the player touches the boundary wall, the open cylinder of radius 100 the
\* scene puts around the world, so a wall probe of any length finds it
AtWall == Dist2(camPos.x, camPos.z) >= (WorldRadius - 2) * (WorldRadius - 2)

\* C23: a tick with the jump key held that begins in the air at the wall sets
\* the vertical velocity to an upward impulse, a fraction of JumpForce, and
\* gives the horizontal velocity a component along the wall normal, which
\* points from the wall to the origin.
WallJumpLifts ==
    [][(ev'.op = "update" /\ ev'.keys.jump /\ ~onGround /\ AtWall) =>
         /\ velocity'.y > 0
         /\ velocity'.y <= JumpForce
         /\ (velocity'.x - velocity.x) * (-camPos.x)
              + (velocity'.z - velocity.z) * (-camPos.z) > 0]_vars

----------------------------------------------------------------------------
(* The slide timer *)

\* C24: whenever the player is not sliding at the end of an update tick, the
\* slide timer is 0, whether the slide ran out, the crouch key was released
\* or a jump cancelled it.
IdleSlideTimerIsZero ==
    [][(ev'.op = "update" /\ ~isSliding') => slideTimer' = 0]_vars

----------------------------------------------------------------------------
(* Respawn and the slide *)

\* no direction key is held in the frame
NoDirection(keys) == ~keys.forward /\ ~keys.backward /\ ~keys.left /\ ~keys.right

\* C25: a respawn run by a Hit message leaves health 100, velocity zero, the
\* camera at a spawn point, no slide and the slide timer 0; and the first tick
\* after a respawn, with no direction key held, leaves the horizontal velocity
\* zero, so a slide that was in progress does not go on.
RespawnResetsActor ==
    /\ [][(ev'.op = "receive" /\ ev'.respawned) =>
            /\ health' = FullHealth
            /\ velocity' = Zero3
            /\ camPos' \in RespawnPositions
            /\ ~isSliding'
            /\ slideTimer' = 0]_vars
    /\ [][(ev.op = "receive" /\ ev.respawned /\ ev'.op = "update" /\ NoDirection(ev'.keys)) =>
            velocity'.x = 0 /\ velocity'.z = 0]_vars

----------------------------------------------------------------------------
(* The random match *)

\* a connection to a peer has been opened, whether or not it is still open
SomeConnectionOpened == \E c \in 1..Len(conns) : conns[c].state # "pending"

\* C26: when the fallback timer of a random match fires, createRoom is called
\* and the client becomes host exactly when no connection to a peer has been
\* opened by then; so a client whose join peer opened but found no host to
\* connect to ends up hosting.
FallbackHostsUnlessConnected ==
    [][ev'.op = "fallbackTimer" =>
         ((Len(peers') = Len(peers) + 1 /\ isHost') <=> ~SomeConnectionOpened)]_vars

----------------------------------------------------------------------------
(* One session per match attempt *)

\* C27: in every interleaving of the join peer's open event and the fallback
\* timer, at most one peer endpoint exists, every outbound connection was made
\* from the endpoint the join attempt created, and the client is host exactly
\* when its current connection handle is an inbound connection.
SessionCreatedOnce ==
    /\ Len(peers) <= 1
    /\ \A c \in 1..Len(conns) : conns[c].dir = "out" => peers[conns[c].peer].kind = "join"
    /\ conn # 0 => (isHost <=> conns[conn].dir = "in")

----------------------------------------------------------------------------
(* Targets and their respawn timers *)

\* C28: each target has at most one respawn timer pending, a respawn timer
\* that fires finds its target sunk, and no timer expiry raises the health of
\* a target that stands, in any order of shots and timer expirations.
OneRespawnTimerPerTarget ==
    /\ [](\A t \in Targets : tTimers[t] <= 1)
    /\ [][ev'.op = "respawnTimer" =>
            /\ tY[ev'.target] = TargetSunkY
            /\ \A t \in Targets : tY[t] = TargetUpY => tHealth'[t] <= tHealth[t]]_vars

----------------------------------------------------------------------------
(* One damage effect per shot *)

\* the targets whose health the step changes
Struck == {t \in Targets : tHealth'[t] # tHealth[t]}

\* C29: a fire event has at most one damage effect: one target loses health
\* and no Hit is sent, or one Hit is sent and no target loses health, or
\* neither happens, also when the ray meets a target and the remote mesh.
OneDamageEffectPerShot ==
    [][ev'.op = "shoot" =>
         /\ Cardinality(Struck) + Cardinality(Sent(out', "hit")) <= 1
         /\ \A t \in Struck : tHealth'[t] < tHealth[t]]_vars

\* a shot whose ray met a target and then the remote mesh has hit the target
ShotThroughTargetAndMesh ==
    /\ ev.op = "shoot"
    /\ ev.ray = <<Target(1), Proxy>>
    /\ tHealth[1] = 80
    /\ Sent(out, "hit") = {}

----------------------------------------------------------------------------
(* A target's position and health *)

\* C30: in every state shots and respawn timers lead to, a target is sunk at
\* y = -5 exactly when its health is 0 or below, and stands at y = 1 exactly
\* when its health is above 0.
SunkExactlyWhenDead ==
    \A t \in Targets :
        /\ tY[t] = TargetSunkY <=> tHealth[t] <= 0
        /\ tY[t] = TargetUpY <=> tHealth[t] > 0

\* a respawn timer has raised target 1 while target 2, shot again after it
\* sank, is still down
OneRaisedOneSunk ==
    /\ ev.op = "respawnTimer"
    /\ ev.target = 1
    /\ tY[1] = TargetUpY
    /\ tHealth[1] = FullHealth
    /\ tY[2] = TargetSunkY
    /\ tHealth[2] < 0

====
